---- MODULE Spec2Model ----
(***************************************************************************)
(* Model of the voice-agent browser client:                                *)
(*   src/frontend-minimal/app/page.tsx   (Home: transport session, event   *)
(*       dispatcher, transcript synchronisation, tool state, timer)        *)
(*   src/unnamed/part_000                (AudioCaptureMediaRecorder)       *)
(* Every handler of the code is one action.  Two history variables, last   *)
(* and out, record the handler that ran in the last step and the calls it  *)
(* made on its collaborators (socket, playback service, timers).           *)
(***************************************************************************)
EXTENDS Integers, Sequences, FiniteSets, TLC

\* ------------------------------------------------------------------ bounds
MaxSockets == 2     \* sockets created by connect() in one run
MaxTimers  == 2     \* interval timers alive at the same time
MaxCaptures == 1    \* capture effects with isCapturing true in one run
MaxNow     == 1     \* the last value of Date.now(), the first one being 0
MaxFrame   == 3     \* samples in a buffer handed to the codec functions
MaxDen     == 2     \* float samples are the multiples of 1/MaxDen in [-1 - 1/MaxDen, 1 + 1/MaxDen]

\* ------------------------------------------------------- program constants
SilentSamples == 1600   \* new Int16Array(1600), the fallback chunk
FrameSamples  == 512    \* createScriptProcessor(512, 1, 1)
NegScale      == 32768  \* 0x8000, the factor of a negative sample
PosScale      == 32767  \* 0x7FFF, the factor of the other samples

\* ------------------------------------------------------- strings and values
\* A string is a sequence of one-character strings; a missing (undefined)
\* string field and the empty string are both falsy and both are <<>>.
USER      == <<"U","S","E","R">>
SYSTEM    == <<"S","Y","S","T","E","M">>
ASSISTANT == <<"A","S","S","I","S","T","A","N","T">>
OTHERROLE == <<"T","O","O","L">>
Hi        == <<"h","i">>
Blank     == <<" ">>
Empty     == <<>>

\* Optional payloads: None is an absent key, Some(v) a present one.
None      == <<>>
Some(v)   == <<v>>
Has(o)    == Len(o) > 0
Val(o)    == o[1]

\* String.prototype.trim: strips leading and trailing white space.
WhiteSpace == {" ", "\t", "\n"}
RECURSIVE trimLeft(_)
trimLeft(s) == IF s # <<>> /\ Head(s) \in WhiteSpace THEN trimLeft(Tail(s)) ELSE s
RECURSIVE trimRight(_)
trimRight(s) == IF s # <<>> /\ s[Len(s)] \in WhiteSpace THEN trimRight(SubSeq(s, 1, Len(s) - 1)) ELSE s
trim(s) == trimRight(trimLeft(s))

\* messageKey of addMessage: `${message.role}:${message.text}`
messageKey(m) == m.role \o <<":">> \o m.text

\* ------------------------------------------------------------------- state
VARIABLES
    status,                  \* useState('Disconnected')
    recording,               \* useState(false)
    textOutputs,             \* useState<TextMessage[]>([])   the transcript
    toolUiOutput,            \* useState<ToolOutputType|null>(null)
    currentTool,             \* useState<{name,content}|null>(null)
    waitingForTool,          \* useState(false)
    toolConfigs,             \* useState<any[]>([])
    typingSoundInterval,     \* useRef: id of the last setInterval, 0 = null
    timers,                  \* interval timers that are running in the host
    wsRef,                   \* useRef<WebSocket|null>: socket id, 0 = null
    sockets,                 \* the sockets created so far, by id
    displayedMessages,       \* useRef<Set<string>>           the DedupSet
    displayedTextContentIds, \* useRef<Set<string>>
    contentIdToStage,        \* useRef<Record<string,string>>
    pendingTexts,            \* useRef<Record<string,TextMessage>>
    crashed,                 \* a state updater threw while rendering
    capProps,                \* AudioCaptureMediaRecorder: the props of its last effect run
    caps,                    \* the effect runs that had isCapturing true
    curCap,                  \* the run of the current effect, 0 = none
    mediaRecorderRef,        \* useRef<MediaRecorder|null>: run whose recorder, 0 = null
    processorRef,            \* useRef<ScriptProcessorNode|null>: run, 0 = null
    streamRef,               \* useRef<MediaStream|null>: run, 0 = null
    sentAudioRef,            \* useRef<boolean>(false)
    audioContextRef,         \* useRef<AudioContext|null>: run whose streaming context, 0 = null
    analyserRef,             \* useRef<AnalyserNode|null>: run, 0 = null
    sourceRef,               \* useRef<MediaStreamAudioSourceNode|null>: run whose streaming source, 0 = null
    now,                     \* Date.now() of the host
    codec,                   \* the buffers of one pass through the audio codec functions
    audioSeen,               \* history: the ids of the audioOutput events handled
    last,                    \* history: the handler of the last step
    out,                     \* history: the calls made by the last step
    verbs                    \* history: see LastVerb

vars == << status, recording, textOutputs, toolUiOutput, currentTool,
           waitingForTool, toolConfigs, typingSoundInterval, timers, wsRef,
           sockets, displayedMessages, displayedTextContentIds,
           contentIdToStage, pendingTexts, crashed, capProps, caps, curCap,
           mediaRecorderRef, processorRef, streamRef, sentAudioRef,
           audioContextRef, analyserRef, sourceRef, now, codec, audioSeen,
           last, out, verbs >>

connVars  == << status, recording, wsRef, sockets >>
syncVars  == << textOutputs, displayedMessages, displayedTextContentIds,
                contentIdToStage, pendingTexts >>
toolVars  == << toolUiOutput, currentTool, waitingForTool, toolConfigs >>
timerVars == << typingSoundInterval, timers >>
pageVars  == << connVars, syncVars, toolVars, timerVars, crashed >>
graphRefs == << audioContextRef, analyserRef, sourceRef >>
capVars   == << capProps, caps, curCap, mediaRecorderRef, processorRef,
                streamRef, sentAudioRef, graphRefs >>

\* ------------------------------------------------------ history of a step
\* A call made on a collaborator: op names the call, sock the socket or timer
\* it is made on (0 when none), verb the frame sent, bytes the audio bytes.
\* names holds the promptName and contentName of an audioInput frame.
Eff(op, n, verb, bytes) ==
    [op |-> op, sock |-> n, verb |-> verb, bytes |-> bytes, names |-> <<>>]
\* An audioInput frame sent on socket n: bytes holds the number of samples of
\* its PCM buffer and whether all of them are zero (1) or not (0).
Audio(n, names, samples, silent) ==
    [Eff("send", n, "audioInput", << samples, silent >>) EXCEPT !.names = names]
Calls(op) == { i \in 1..Len(out) : out[i].op = op }

\* ------------------------------------------------------ the server's events
\* An event object: each recognised key is absent (None) or holds a payload.
NoEvent == [init |-> None, contentStart |-> None, toolUse |-> None,
            toolResult |-> None, toolUiOutput |-> None, contentEnd |-> None,
            audioOutput |-> None, textOutput |-> None]
EvInit(cfg)            == [NoEvent EXCEPT !.init = Some([toolConfigs |-> cfg])]
EvContentStart(t, id, amf) ==
    [NoEvent EXCEPT !.contentStart =
        Some([type |-> t, contentId |-> id, additionalModelFields |-> amf])]
EvToolUse(name)        == [NoEvent EXCEPT !.toolUse = Some([toolName |-> name])]
EvToolResult(c)        == [NoEvent EXCEPT !.toolResult = Some([content |-> c])]
EvToolUiOutput(t, st)  ==
    [NoEvent EXCEPT !.toolUiOutput = Some([type |-> t, content |-> [status |-> st]])]
\* A toolUiOutput of type button: its content holds the id of the button.
EvButton(id)           ==
    [NoEvent EXCEPT !.toolUiOutput = Some([type |-> "button", content |-> [id |-> id]])]
EvContentEnd(t)        == [NoEvent EXCEPT !.contentEnd = Some([type |-> t])]
EvAudioOutput(c, id)   ==
    [NoEvent EXCEPT !.audioOutput = Some([content |-> c, contentId |-> id])]
EvTextOutput(c, r, id) ==
    [NoEvent EXCEPT !.textOutput = Some([content |-> c, role |-> r, contentId |-> id])]

\* A JSON text is modelled by whether JSON.parse accepts it and, when it
\* does, the generationStage member of the parsed object ("" when absent).
\* For toolResult.content: whether JSON.parse accepts it and the text that
\* JSON.stringify(JSON.parse(content), null, 2) gives.
ToolJson(ok, pretty) == [wellFormed |-> ok, pretty |-> pretty]
NoJson         == [present |-> FALSE, wellFormed |-> FALSE, generationStage |-> ""]
BadJson        == [present |-> TRUE,  wellFormed |-> FALSE, generationStage |-> ""]
Json(stage)    == [present |-> TRUE,  wellFormed |-> TRUE,  generationStage |-> stage]

\* A Record<string, V> is the set of its entries [k |-> key, v |-> value],
\* at most one entry for a key.
MapHas(m, k)    == \E en \in m : en.k = k
MapGet(m, k)    == (CHOOSE en \in m : en.k = k).v
MapDel(m, k)    == { en \in m : en.k # k }
MapPut(m, k, v) == MapDel(m, k) \cup { [k |-> k, v |-> v] }
MapKeys(m)      == { en.k : en \in m }

\* ------------------------------------------------------------ construction
\* The state after the first commit of Home: the mount effects have run, so
\* the playback service exists; audioContext is created by the useState
\* initialiser in the browser.
playbackServiceRef == TRUE
audioContext       == TRUE
\* No buffer has been handed to the codec functions.
NoCodec == [stage |-> "none", floats |-> <<>>, pcm |-> <<>>, base64 |-> <<>>, bytes |-> <<>>]

Untracked == "untracked"
InitClient ==
    /\ status = "Disconnected"
    /\ recording = FALSE
    /\ textOutputs = <<>>
    /\ toolUiOutput = None
    /\ currentTool = None
    /\ waitingForTool = FALSE
    /\ toolConfigs = <<>>
    /\ typingSoundInterval = 0
    /\ timers = {}
    /\ wsRef = 0
    /\ sockets = <<>>
    /\ displayedMessages = {}
    /\ displayedTextContentIds = {}
    /\ contentIdToStage = {}
    /\ pendingTexts = {}
    /\ crashed = FALSE
    /\ capProps = [isCapturing |-> FALSE, websocket |-> 0]
    /\ caps = <<>>
    /\ curCap = 0
    /\ mediaRecorderRef = 0
    /\ processorRef = 0
    /\ streamRef = 0
    /\ sentAudioRef = FALSE
    /\ audioContextRef = 0
    /\ analyserRef = 0
    /\ sourceRef = 0
    /\ now = 0
    /\ audioSeen = {}
    /\ last = [op |-> "mount", sock |-> 0, ev |-> NoEvent, tool |-> "Idle"]
    /\ out = <<>>
Init ==
    /\ InitClient
    /\ codec = NoCodec
    /\ verbs = Untracked
\* The same client, with the control verbs of the connection recorded.
InitVerbs ==
    /\ InitClient
    /\ codec = NoCodec
    /\ verbs = ""

\* ------------------------------------------------------------ the dispatch
\* The else-if chain of handleEventMessage: the first branch that matches
branchOfLowestFirst(e) ==
    IF Has(e.textOutput) THEN "textOutput"
    ELSE IF Has(e.audioOutput) THEN "audioOutput"
    ELSE IF Has(e.contentEnd) /\ Val(e.contentEnd).type = "TOOL" THEN "contentEndTool"
    ELSE IF Has(e.toolUiOutput) THEN "toolUiOutput"
    ELSE IF Has(e.toolResult) THEN "toolResult"
    ELSE IF Has(e.toolUse) THEN "toolUse"
    ELSE IF Has(e.contentStart) /\ Val(e.contentStart).type = "TOOL" THEN "contentStartTool"
    ELSE IF Has(e.contentStart) /\ Val(e.contentStart).type = "TEXT" THEN "contentStartText"
    ELSE IF Has(e.init) THEN "init"
    ELSE "none"
branchOf(e) ==
    IF Has(e.init) THEN "init"
    ELSE IF Has(e.contentStart) /\ Val(e.contentStart).type = "TEXT" THEN "contentStartText"
    ELSE IF Has(e.contentStart) /\ Val(e.contentStart).type = "TOOL" THEN "contentStartTool"
    ELSE IF Has(e.toolUse) THEN "toolUse"
    ELSE IF Has(e.toolResult) THEN "toolResult"
    ELSE IF Has(e.toolUiOutput) THEN "toolUiOutput"
    ELSE IF Has(e.contentEnd) /\ Val(e.contentEnd).type = "TOOL" THEN "contentEndTool"
    ELSE IF Has(e.audioOutput) THEN "audioOutput"
    ELSE IF Has(e.textOutput) THEN "textOutput"
    ELSE "none"

\* event.audioOutput.contentId || 'default'
audioContentId(e) ==
    IF Val(e.audioOutput).contentId # "" THEN Val(e.audioOutput).contentId ELSE "default"

\* ------------------------------------------------------------- the sockets
\* A socket is CONNECTING, OPEN, CLOSING or CLOSED; ERRORED is CLOSED with
\* the error event delivered and the close event of the same task still to
\* come.  The host delivers the two back to back, so nothing else runs while
\* a socket is ERRORED.
readyState(s) == IF sockets[s] = "ERRORED" THEN "CLOSED" ELSE sockets[s]
Busy          == \E s \in DOMAIN sockets : sockets[s] = "ERRORED"
Quiet         == ~crashed /\ ~Busy
IsOpen(ws)    == ws # 0 /\ readyState(ws) = "OPEN"

\* WebSocket.close(): starts the closing handshake of a socket that is
\* connecting or open, and does nothing to one that is closing or closed.
closeSocket(ss, ws) ==
    IF ss[ws] \in {"CONNECTING", "OPEN"} THEN [ss EXCEPT ![ws] = "CLOSING"] ELSE ss

\* The state of the tool machine that (waitingForTool, currentTool) stand for
machineState ==
    IF waitingForTool THEN "AwaitingTool"
    ELSE IF Has(currentTool) THEN "ToolResultReceived" ELSE "Idle"
\* last.tool is the state of the tool machine in which the handler started.
\* The control verbs of a connection.  LastVerb is the last of start_audio
\* and stop_audio that was sent on the socket in wsRef, "" when none was;
\* connect and disconnect, which put another socket or none in wsRef, start
\* the record again.  The variable verbs holds what LastVerb was before the
\* last step, out holds the calls of the last step.  The record is kept in
\* the behaviours that begin with it (InitVerbs) and is Untracked in the
\* others.
ControlVerbs == {"start_audio", "stop_audio"}
ControlSends(o) == { i \in 1..Len(o) : o[i].op = "send" /\ o[i].verb \in ControlVerbs }
LastVerb ==
    IF verbs = Untracked THEN Untracked
    ELSE IF last.op \in {"connect", "disconnect"} THEN ""
    ELSE IF ControlSends(out) # {}
    THEN out[CHOOSE i \in ControlSends(out) : \A j \in ControlSends(out) : j <= i].verb
    ELSE verbs
Step(op, s, e) ==
    /\ last' = [op |-> op, sock |-> s, ev |-> e, tool |-> machineState]
    /\ verbs' = LastVerb
    /\ UNCHANGED << now, codec >>
    /\ audioSeen' = IF op = "onmessage" /\ branchOf(e) = "audioOutput"
                    THEN audioSeen \cup {audioContentId(e)} ELSE audioSeen

\* connect(), the button's handler while status is not 'Connected'
connect ==
    /\ Quiet
    /\ status # "Connected"
    /\ Len(sockets) < MaxSockets
    /\ LET closed == IF wsRef # 0 THEN closeSocket(sockets, wsRef) ELSE sockets
           new    == Len(sockets) + 1
       IN /\ sockets' = Append(closed, "CONNECTING")
          /\ wsRef' = new
          /\ out' = (IF wsRef # 0 THEN << Eff("close", wsRef, "", <<>>) >> ELSE <<>>)
                    \o << Eff("new WebSocket", new, "", <<>>) >>
    /\ status' = "Connecting..."
    /\ Step("connect", 0, NoEvent)
    /\ UNCHANGED << recording, syncVars, toolVars, timerVars, crashed >>

\* wsRef.current.onopen
onopen(s) ==
    /\ Quiet
    /\ sockets[s] = "CONNECTING"
    /\ sockets' = [sockets EXCEPT ![s] = "OPEN"]
    /\ status' = "Connected"
    /\ Step("onopen", s, NoEvent)
    /\ out' = <<>>
    /\ UNCHANGED << recording, wsRef, syncVars, toolVars, timerVars, crashed >>

\* wsRef.current.onerror: the transport failed; its close event follows.
onerrorStatus == "Error"
onerror(s) ==
    /\ Quiet
    /\ sockets[s] \in {"CONNECTING", "OPEN", "CLOSING"}
    /\ sockets' = [sockets EXCEPT ![s] = "ERRORED"]
    /\ status' = onerrorStatus
    /\ Step("onerror", s, NoEvent)
    /\ out' = <<>>
    /\ UNCHANGED << recording, wsRef, syncVars, toolVars, timerVars, crashed >>

\* wsRef.current.onclose: after an error, after the closing handshake, or
\* when the server closes an open socket.
closedAndReconnected(s) ==
    IF Len(sockets) < MaxSockets
    THEN Append([sockets EXCEPT ![s] = "CLOSED"], "CONNECTING")
    ELSE [sockets EXCEPT ![s] = "CLOSED"]
closedSockets(s) == [sockets EXCEPT ![s] = "CLOSED"]
oncloseKeepsRecording == recording
oncloseRecording == FALSE
onclose(s) ==
    /\ ~crashed
    /\ sockets[s] \in {"ERRORED", "OPEN", "CLOSING"}
    /\ sockets' = closedSockets(s)
    /\ status' = "Disconnected"
    /\ recording' = oncloseRecording
    /\ Step("onclose", s, NoEvent)
    /\ out' = <<>>
    /\ UNCHANGED << wsRef, syncVars, toolVars, timerVars, crashed >>

\* disconnect(), the button's handler while status is 'Connected'.  It does
\* not touch toolUiOutput, currentTool, waitingForTool or the typing timer.
disconnectCallKeepsIds ==
    /\ recording' = FALSE
    /\ status' = "Disconnected"
    /\ textOutputs' = <<>>
    /\ displayedMessages' = {}
    /\ displayedTextContentIds' = displayedTextContentIds
    /\ contentIdToStage' = {}
    /\ pendingTexts' = {}
    /\ IF wsRef # 0
       THEN /\ sockets' = closeSocket(sockets, wsRef)
            /\ wsRef' = 0
       ELSE UNCHANGED << sockets, wsRef >>
    /\ out' = (IF wsRef # 0 THEN << Eff("close", wsRef, "", <<>>) >> ELSE <<>>)
              \o (IF playbackServiceRef THEN << Eff("stop", 0, "", <<>>) >> ELSE <<>>)
    /\ UNCHANGED << toolVars, timerVars, crashed >>
disconnectCall ==
    /\ recording' = FALSE
    /\ status' = "Disconnected"
    /\ textOutputs' = <<>>
    /\ displayedMessages' = {}
    /\ displayedTextContentIds' = {}
    /\ contentIdToStage' = {}
    /\ pendingTexts' = {}
    /\ IF wsRef # 0
       THEN /\ sockets' = closeSocket(sockets, wsRef)
            /\ wsRef' = 0
       ELSE UNCHANGED << sockets, wsRef >>
    /\ out' = (IF wsRef # 0 THEN << Eff("close", wsRef, "", <<>>) >> ELSE <<>>)
              \o (IF playbackServiceRef THEN << Eff("stop", 0, "", <<>>) >> ELSE <<>>)
    /\ UNCHANGED << toolVars, timerVars, crashed >>
disconnect ==
    /\ Quiet
    /\ status = "Connected"
    /\ disconnectCall
    /\ Step("disconnect", 0, NoEvent)
\* disconnect() called once more, straight after a call of it and not
\* through the button, which offers connect by then.
disconnectAgain ==
    /\ Quiet
    /\ last.op \in {"disconnect", "disconnectAgain"}
    /\ disconnectCall
    /\ Step("disconnectAgain", 0, NoEvent)

\* The guard of every send of page.tsx and of the capture component:
\* websocket && websocket.readyState === WebSocket.OPEN
sendGuardNotNull(ws) == ws # 0
sendGuard(ws) == IsOpen(ws)

\* startRecording(), the record button's handler (enabled while status is
\* 'Connected') when recording is false
startRecording ==
    /\ Quiet
    /\ status = "Connected"
    /\ ~recording
    /\ recording' = TRUE
    /\ out' = IF sendGuard(wsRef) THEN << Eff("send", wsRef, "start_audio", <<>>) >> ELSE <<>>
    /\ Step("startRecording", 0, NoEvent)
    /\ UNCHANGED << status, wsRef, sockets, syncVars, toolVars, timerVars, crashed >>

\* stopRecording(), the record button's handler when recording is true
stopRecording ==
    /\ Quiet
    /\ status = "Connected"
    /\ recording
    /\ recording' = FALSE
    /\ out' = IF sendGuard(wsRef) THEN << Eff("send", wsRef, "stop_audio", <<>>) >> ELSE <<>>
    /\ Step("stopRecording", 0, NoEvent)
    /\ UNCHANGED << status, wsRef, sockets, syncVars, toolVars, timerVars, crashed >>

\* handleClick of ButtonOutput, the click on the button of the overlay.  The
\* overlay shows a button while toolUiOutput holds a payload of type button.
\* Its websocket prop is wsRef.current as the last render of the page read
\* it; connect and disconnect, which alone assign wsRef.current, are click
\* handlers that also change wsKey, so the page has rendered with the new
\* value before any other click is handled.
buttonShown == Has(toolUiOutput) /\ Val(toolUiOutput).type = "button"
handleClick ==
    /\ Quiet
    /\ buttonShown
    /\ out' = IF sendGuard(wsRef)
              THEN << [Eff("send", wsRef, "ui_interaction", <<>>)
                         EXCEPT !.names = << "button_click", Val(toolUiOutput).content.id,
                                             "click" >>] >>
              ELSE <<>>
    /\ Step("handleClick", 0, NoEvent)
    /\ UNCHANGED pageVars

\* ----------------------------------------------------------- the transcript
\* addMessage: the message is appended unless its key is in the DedupSet.
\* The result is the pair (DedupSet, transcript) after the call.
addMessageNoDedup(dm, to, m) ==
    [dm |-> dm \cup {messageKey(m)}, to |-> Append(to, m)]
addMessagePrepends(dm, to, m) ==
    IF messageKey(m) \notin dm
    THEN [dm |-> dm \cup {messageKey(m)}, to |-> << m >> \o to]
    ELSE [dm |-> dm, to |-> to]
addMessageForgets(dm, to, m) ==
    IF messageKey(m) \notin dm
    THEN [dm |-> {messageKey(m)}, to |-> Append(to, m)]
    ELSE [dm |-> dm, to |-> to]
addMessage(dm, to, m) ==
    IF messageKey(m) \notin dm
    THEN [dm |-> dm \cup {messageKey(m)}, to |-> Append(to, m)]
    ELSE [dm |-> dm, to |-> to]

\* const hasAudioOutput = event.audioOutput && event.audioOutput.contentId === contentId
hasAudioOutputExpected(e, contentId) == contentId # ""
hasAudioOutput(e, contentId) ==
    Has(e.audioOutput) /\ Val(e.audioOutput).contentId = contentId

\* atob followed by the byte copy of base64ToArrayBuffer; the audio content
\* of an event is given as the sequence of its base64 digits (0..63, 64 for
\* the padding '=').
RECURSIVE atob(_)
atob(d) ==
    IF Len(d) < 4 THEN <<>>
    ELSE LET n == d[1] * 262144 + d[2] * 4096
                  + (IF d[3] = 64 THEN 0 ELSE d[3] * 64)
                  + (IF d[4] = 64 THEN 0 ELSE d[4])
             b == << n \div 65536, (n \div 256) % 256, n % 256 >>
             k == IF d[3] = 64 THEN 1 ELSE IF d[4] = 64 THEN 2 ELSE 3
         IN SubSeq(b, 1, k) \o atob(SubSeq(d, 5, Len(d)))
base64ToArrayBufferPadAsDigit(base64) ==
    atob([i \in 1..Len(base64) |-> IF base64[i] = 64 THEN 0 ELSE base64[i]])
base64ToArrayBuffer(base64) == atob(base64)

\* -------------------------------------------------------- the audio codec
\* A float sample is k / MaxDen, given by its numerator k.  A product of a
\* sample and a factor is the rational p / MaxDen, given by p.
\* Math.max(-1, Math.min(1, s))
clampSample(k) == IF k < -MaxDen THEN -MaxDen ELSE IF k > MaxDen THEN MaxDen ELSE k
\* s < 0 ? s * 0x8000 : s * 0x7FFF
scaleSample(k) == IF k < 0 THEN k * NegScale ELSE k * PosScale
\* The store of a number into an Int16Array element: the fraction is
\* dropped (towards zero), then the value wraps to 16 bits, two's complement.
truncate(p) == IF p >= 0 THEN p \div MaxDen ELSE -((-p) \div MaxDen)
toInt16(v)  ==
    LET m == v % (2 * NegScale) IN IF m >= NegScale THEN m - 2 * NegScale ELSE m
floatTo16BitPCM(input) ==
    [i \in 1..Len(input) |-> toInt16(truncate(scaleSample(clampSample(input[i]))))]

\* btoa of a binary string, given as its bytes: the base64 digits, 64 for '='
RECURSIVE btoa(_)
btoa(b) ==
    IF Len(b) = 0 THEN <<>>
    ELSE IF Len(b) = 1
    THEN << b[1] \div 4, (b[1] % 4) * 16, 64, 64 >>
    ELSE IF Len(b) = 2
    THEN << b[1] \div 4, (b[1] % 4) * 16 + b[2] \div 16, (b[2] % 16) * 4, 64 >>
    ELSE << b[1] \div 4, (b[1] % 4) * 16 + b[2] \div 16,
            (b[2] % 16) * 4 + b[3] \div 64, b[3] % 64 >>
         \o btoa(SubSeq(b, 4, Len(b)))

\* int16[i] & 0xff and (int16[i] >> 8) & 0xff on the two's complement of
\* int16[i]: >> is the arithmetic shift.
lowByte(v)  == v % 256
highByte(v) == (v \div 256) % 256
RECURSIVE binaryOf(_)
binaryOfBigEndian(int16) ==
    IF int16 = <<>> THEN <<>>
    ELSE << highByte(Head(int16)), lowByte(Head(int16)) >> \o binaryOf(Tail(int16))
binaryOf(int16) ==
    IF int16 = <<>> THEN <<>>
    ELSE << lowByte(Head(int16)), highByte(Head(int16)) >> \o binaryOf(Tail(int16))
int16ToBase64(int16) == btoa(binaryOf(int16))

\* One pass of a buffer through the codec functions: what onaudioprocess
\* does to the input buffer of a frame, and what the receiver of the frame
\* does to its content.
codecFrame == << pageVars, capVars, now, audioSeen, last, out, verbs >>
callFloatTo16BitPCM ==
    /\ codec.stage = "float"
    /\ codec' = [codec EXCEPT !.stage = "pcm", !.pcm = floatTo16BitPCM(codec.floats)]
    /\ UNCHANGED codecFrame
callInt16ToBase64 ==
    /\ codec.stage = "pcm"
    /\ codec' = [codec EXCEPT !.stage = "base64", !.base64 = int16ToBase64(codec.pcm)]
    /\ UNCHANGED codecFrame
callBase64ToArrayBuffer ==
    /\ codec.stage = "base64"
    /\ codec' = [codec EXCEPT !.stage = "bytes", !.bytes = base64ToArrayBuffer(codec.base64)]
    /\ UNCHANGED codecFrame

\* --------------------------------------------------------- the typing timer
FreshTimer == CHOOSE id \in 1..(MaxTimers + 1) : id \notin timers

\* startTypingSound: the new interval's id overwrites the ref; an interval
\* the ref already names is not cleared.
startTypingSound ==
    /\ Cardinality(timers) < MaxTimers
    /\ IF audioContext
       THEN /\ typingSoundInterval' = FreshTimer
            /\ timers' = timers \cup {FreshTimer}
            /\ out' = << Eff("setInterval", FreshTimer, "", <<>>) >>
       ELSE /\ UNCHANGED timerVars
            /\ out' = <<>>

\* stopTypingSound
stopTypingSound ==
    IF typingSoundInterval # 0
    THEN /\ timers' = timers \ {typingSoundInterval}
         /\ typingSoundInterval' = 0
         /\ out' = << Eff("clearInterval", typingSoundInterval, "", <<>>) >>
    ELSE /\ UNCHANGED timerVars
         /\ out' = <<>>

\* ------------------------------------------------- the branches of dispatch
\* if (event.init)
onInit(e) ==
    /\ toolConfigs' = Val(e.init).toolConfigs
    /\ out' = <<>>
    /\ UNCHANGED << syncVars, toolUiOutput, currentTool, waitingForTool, timerVars, crashed >>

\* contentStart of type TEXT: the generation stage of the id is recorded
stageOf(amf) ==
    IF amf.present /\ amf.wellFormed /\ amf.generationStage # ""
    THEN amf.generationStage ELSE "FINAL"
onContentStartText(e) ==
    LET cs == Val(e.contentStart) IN
    /\ contentIdToStage' =
          IF cs.contentId # ""
          THEN MapPut(contentIdToStage, cs.contentId, stageOf(cs.additionalModelFields))
          ELSE contentIdToStage
    /\ out' = <<>>
    /\ UNCHANGED << textOutputs, displayedMessages, displayedTextContentIds,
                    pendingTexts, toolVars, timerVars, crashed >>

\* contentStart of type TOOL
onContentStartTool(e) ==
    /\ waitingForTool' = TRUE
    /\ out' = <<>>
    /\ UNCHANGED << syncVars, toolUiOutput, currentTool, toolConfigs, timerVars, crashed >>

\* toolUse
toolNameOf(e) ==
    IF Val(e.toolUse).toolName # "" THEN Val(e.toolUse).toolName ELSE "Unknown Tool"
onToolUse(e) ==
    /\ waitingForTool' = TRUE
    /\ currentTool' = Some([name |-> toolNameOf(e), content |-> "Processing..."])
    /\ out' = <<>>
    /\ UNCHANGED << syncVars, toolUiOutput, toolConfigs, timerVars, crashed >>

\* toolResult: the first JSON.parse is inside try/catch; the one in the
\* setCurrentTool updater is not, and the updater runs it only when a tool
\* is recorded.  An updater that throws fails the render of Home.
onToolResult(e) ==
    LET c == Val(e.toolResult).content IN
    /\ waitingForTool' = FALSE
    /\ IF Has(currentTool)
       THEN IF c.wellFormed
            THEN /\ currentTool' = Some([Val(currentTool) EXCEPT !.content = c.pretty])
                 /\ crashed' = crashed
            ELSE /\ currentTool' = currentTool
                 /\ crashed' = TRUE
       ELSE /\ currentTool' = None
            /\ crashed' = crashed
    /\ out' = <<>>
    /\ UNCHANGED << syncVars, toolUiOutput, toolConfigs, timerVars >>

\* toolUiOutput: barge_in and tool_exec_progress side protocols, then the
\* overlay is set to the payload.
bargeInStopsWhenIdle(ui) == ui.type = "barge_in" /\ playbackServiceRef /\ ~waitingForTool
bargeInStops(ui) == ui.type = "barge_in" /\ playbackServiceRef
onToolUiOutputEndsTool(e) ==
    LET ui == Val(e.toolUiOutput)
    IN
    /\ UNCHANGED timerVars
    /\ out' = <<>>
    /\ toolUiOutput' = Some(ui)
    /\ currentTool' = None
    /\ waitingForTool' = FALSE
    /\ UNCHANGED << syncVars, toolConfigs, crashed >>
onToolUiOutput(e) ==
    LET ui == Val(e.toolUiOutput)
        stop == IF bargeInStops(ui) THEN << Eff("stop", 0, "", <<>>) >> ELSE <<>>
    IN
    /\ IF ui.type = "tool_exec_progress" /\ ui.content.status = "started"
       THEN startTypingSound
       ELSE IF ui.type = "tool_exec_progress" /\ ui.content.status = "completed"
       THEN stopTypingSound
       ELSE /\ UNCHANGED timerVars
            /\ out' = stop
    /\ toolUiOutput' = Some(ui)
    /\ UNCHANGED << syncVars, currentTool, waitingForTool, toolConfigs, crashed >>

\* contentEnd of type TOOL
onContentEndToolKeepsTool(e) ==
    /\ waitingForTool' = FALSE
    /\ out' = <<>>
    /\ UNCHANGED << syncVars, toolUiOutput, currentTool, toolConfigs, timerVars, crashed >>
onContentEndTool(e) ==
    /\ currentTool' = None
    /\ waitingForTool' = FALSE
    /\ out' = <<>>
    /\ UNCHANGED << syncVars, toolUiOutput, toolConfigs, timerVars, crashed >>

\* audioOutput: the chunk is played, then the text pending for its id, if
\* any, is shown.
onAudioOutput(e) ==
    LET contentId == audioContentId(e)
        flush     == MapHas(pendingTexts, contentId)
        shown     == addMessage(displayedMessages, textOutputs, MapGet(pendingTexts, contentId))
    IN
    /\ out' = IF playbackServiceRef
              THEN << Eff("playPCM", 0, "", base64ToArrayBuffer(Val(e.audioOutput).content)) >>
              ELSE <<>>
    /\ IF flush
       THEN /\ displayedMessages' = shown.dm
            /\ textOutputs' = shown.to
            /\ displayedTextContentIds' = displayedTextContentIds \cup {contentId}
            /\ pendingTexts' = MapDel(pendingTexts, contentId)
       ELSE UNCHANGED << displayedMessages, textOutputs, displayedTextContentIds, pendingTexts >>
    /\ UNCHANGED << contentIdToStage, toolVars, timerVars, crashed >>

\* textOutput
textRoleAsGiven(e) == Val(e.textOutput).role
textRole(e) == IF Val(e.textOutput).role # <<>> THEN Val(e.textOutput).role ELSE ASSISTANT
textIsEmptyUntrimmed(text) == text = <<>>
textIsEmpty(text) == text = <<>> \/ trim(text) = <<>>
showsImmediately(e, role, contentId) ==
    \/ role \in {USER, SYSTEM}
    \/ role = ASSISTANT /\ (contentId = "" \/ ~hasAudioOutput(e, contentId))
buffers(e, role, contentId) ==
    role = ASSISTANT /\ ~(contentId = "" \/ ~hasAudioOutput(e, contentId))
onTextOutput(e) ==
    LET text      == Val(e.textOutput).content
        role      == textRole(e)
        contentId == Val(e.textOutput).contentId
        m         == [text |-> text, role |-> role]
        shown     == addMessage(displayedMessages, textOutputs, m)
    IN
    /\ out' = <<>>
    /\ IF textIsEmpty(text)
       THEN UNCHANGED syncVars
       ELSE IF showsImmediately(e, role, contentId)
       THEN /\ displayedMessages' = shown.dm
            /\ textOutputs' = shown.to
            /\ displayedTextContentIds' =
                  IF contentId # "" THEN displayedTextContentIds \cup {contentId}
                  ELSE displayedTextContentIds
            /\ UNCHANGED << contentIdToStage, pendingTexts >>
       ELSE IF buffers(e, role, contentId)
       THEN /\ pendingTexts' = MapPut(pendingTexts, contentId, m)
            /\ UNCHANGED << textOutputs, displayedMessages, displayedTextContentIds,
                            contentIdToStage >>
       ELSE UNCHANGED syncVars
    /\ UNCHANGED << toolVars, timerVars, crashed >>

\* handleEventMessage: the branch chosen runs, and no other
handleEventMessage(e) ==
    CASE branchOf(e) = "init"             -> onInit(e)
      [] branchOf(e) = "contentStartText" -> onContentStartText(e)
      [] branchOf(e) = "contentStartTool" -> onContentStartTool(e)
      [] branchOf(e) = "toolUse"          -> onToolUse(e)
      [] branchOf(e) = "toolResult"       -> onToolResult(e)
      [] branchOf(e) = "toolUiOutput"     -> onToolUiOutput(e)
      [] branchOf(e) = "contentEndTool"   -> onContentEndTool(e)
      [] branchOf(e) = "audioOutput"      -> onAudioOutput(e)
      [] branchOf(e) = "textOutput"       -> onTextOutput(e)
      [] OTHER -> /\ out' = <<>>
                  /\ UNCHANGED << syncVars, toolVars, timerVars, crashed >>

\* wsRef.current.onmessage with a string that parses to {event: ...}.  The
\* host delivers messages of a socket only while it is OPEN.
onmessage(s, e) ==
    /\ Quiet
    /\ sockets[s] = "OPEN"
    /\ handleEventMessage(e)
    /\ Step("onmessage", s, e)
    /\ UNCHANGED connVars

\* event.data of a message event, as the onmessage handler sees it:
\*   isString   typeof event.data === 'string'
\*   parses     JSON.parse(event.data) returns
\*   msg        what it returns: null, or an object whose event key is
\*              absent (None) or holds an event, and whose other keys are rest
NullMsg        == [isNull |-> TRUE,  event |-> None, rest |-> NoEvent]
Binary         == [isString |-> FALSE, parses |-> FALSE, msg |-> NullMsg]
NotJson        == [isString |-> TRUE,  parses |-> FALSE, msg |-> NullMsg]
JsonNull       == [isString |-> TRUE,  parses |-> TRUE,  msg |-> NullMsg]
JsonBare(rest) ==
    [isString |-> TRUE, parses |-> TRUE,
     msg |-> [isNull |-> FALSE, event |-> None, rest |-> rest]]
JsonEvent(e)   ==
    [isString |-> TRUE, parses |-> TRUE,
     msg |-> [isNull |-> FALSE, event |-> Some(e), rest |-> NoEvent]]

\* The event that the handler passes to handleEventMessage, None when it
\* passes none: data that is not a string is skipped, a parse error and the
\* TypeError of reading null.event are caught, a falsy msg.event is skipped.
eventOfUnwrapped(d) ==
    IF ~d.isString \/ ~d.parses \/ d.msg.isNull THEN None
    ELSE IF Has(d.msg.event) THEN d.msg.event ELSE Some(d.msg.rest)
eventOf(d) ==
    IF ~d.isString THEN None
    ELSE IF ~d.parses THEN None
    ELSE IF d.msg.isNull THEN None
    ELSE d.msg.event

\* wsRef.current.onmessage with any event.data
onmessageData(s, d) ==
    /\ Quiet
    /\ sockets[s] = "OPEN"
    /\ IF Has(eventOf(d))
       THEN handleEventMessage(Val(eventOf(d)))
       ELSE /\ out' = <<>>
            /\ UNCHANGED << syncVars, toolVars, timerVars, crashed >>
    /\ Step("onmessageData", s, d)
    /\ UNCHANGED connVars

\* handleAudioError, the onError prop of the capture component
handleAudioErrorKeepsRecording ==
    /\ recording' = recording
    /\ UNCHANGED << status, wsRef, sockets, syncVars, toolVars, timerVars, crashed >>
handleAudioError ==
    /\ recording' = FALSE
    /\ UNCHANGED << status, wsRef, sockets, syncVars, toolVars, timerVars, crashed >>

\* onError, the prop of the capture component, called by the catch of its
\* getUserMedia promise and by the recorder's error handler.  Both belong
\* to an effect run with isCapturing true, which exists once the page has
\* rendered with recording true.
onError ==
    /\ Quiet
    /\ recording
    /\ handleAudioError
    /\ out' = << Eff("onError", 0, "", <<>>) >>
    /\ Step("onError", 0, NoEvent)

\* ------------------------------------------ AudioCaptureMediaRecorder
\* An effect run with isCapturing true:
\*   ws        the websocket prop its closures hold
\*   acq       getUserMedia: "pending", "resolved" or "rejected"
\*   stream    its MediaStream: "none", "live" or "stopped" (tracks stopped)
\*   proc      its ScriptProcessorNode: "none", "on" (connected) or "off"
\*   rec       its MediaRecorder: "none", "recording", "stopping" (inactive,
\*             the stop event queued) or "inactive" (onstop has run)
\*   vctx      the AudioContext of visualize: "none", "open" or "closed"
\*   vsrc      the source node of visualize: "none", "on" or "off"
\*   ana       the analyser node of visualize: "none", "on" or "off"
\*   actx      the streaming AudioContext: "none", "open" or "closed"
\*   src       the streaming source node: "none", "on" or "off"
\*   promptName, contentName   the props its closures hold
\*   sentAny   history: a frame of this run was sent
\* The props promptName and contentName that the page computes when it
\* builds the element, at time t.
promptNameOf(ws)     == IF ws # 0 THEN "user_audio_prompt" ELSE "inactive_prompt"
contentNameOf(ws, t) == IF ws # 0 THEN << "user_audio_", t >> ELSE << "inactive_content" >>
NewCapture(ws) ==
    [ws |-> ws, acq |-> "pending", stream |-> "none", proc |-> "none",
     rec |-> "none", vctx |-> "none", vsrc |-> "none", ana |-> "none",
     actx |-> "none", src |-> "none",
     promptName |-> promptNameOf(ws), contentName |-> contentNameOf(ws, now),
     sentAny |-> FALSE]

\* The release of the audio graph that the refs name, as the cleanup and
\* onstop both do it: the context of audioContextRef is closed, the nodes
\* of analyserRef, sourceRef and processorRef are disconnected.
releaseGraph(cs) ==
    LET c1 == IF audioContextRef # 0 THEN [cs EXCEPT ![audioContextRef].actx = "closed"] ELSE cs
        c2 == IF analyserRef # 0 THEN [c1 EXCEPT ![analyserRef].ana = "off"] ELSE c1
        c3 == IF sourceRef # 0 THEN [c2 EXCEPT ![sourceRef].src = "off"] ELSE c2
        c4 == IF processorRef # 0 THEN [c3 EXCEPT ![processorRef].proc = "off"] ELSE c3
    IN c4

\* The cleanup returned by the effect, applied to the runs cs.
cleanupCaps(cs) ==
    LET c1 == IF mediaRecorderRef # 0 /\ cs[mediaRecorderRef].rec = "recording"
              THEN [cs EXCEPT ![mediaRecorderRef].rec = "stopping"] ELSE cs
        c2 == IF streamRef # 0 THEN [c1 EXCEPT ![streamRef].stream = "stopped"] ELSE c1
    IN releaseGraph(c2)

\* One run of the effect for the props (isCapturing, websocket): the cleanup
\* of the previous run, then the body.
captureEffect(isCapturing, websocket) ==
    /\ isCapturing => Len(caps) < MaxCaptures
    /\ capProps' = [isCapturing |-> isCapturing, websocket |-> websocket]
    /\ processorRef' = 0
    /\ streamRef' = 0
    /\ audioContextRef' = 0
    /\ analyserRef' = 0
    /\ sourceRef' = 0
    /\ UNCHANGED mediaRecorderRef
    /\ sentAudioRef' = FALSE
    /\ IF isCapturing
       THEN /\ caps' = Append(cleanupCaps(caps), NewCapture(websocket))
            /\ curCap' = Len(caps) + 1
       ELSE /\ caps' = cleanupCaps(caps)
            /\ curCap' = 0

\* React commits a state change made outside a user event in a later task.
commit ==
    /\ Quiet
    /\ capProps # [isCapturing |-> recording, websocket |-> wsRef]
    /\ captureEffect(recording, wsRef)
    /\ Step("commit", 0, NoEvent)
    /\ out' = <<>>
    /\ UNCHANGED pageVars

\* The first half of the then-handler: the stream is kept, visualize builds
\* its context, source and analyser (the canvas is mounted), then the
\* streaming context, source and processor are built; audioContextRef and
\* sourceRef end up naming the streaming ones.
graphSetUp(c) ==
    [c EXCEPT !.acq = "resolved", !.stream = "live",
              !.vctx = "open", !.vsrc = "on", !.ana = "on",
              !.actx = "open", !.src = "on", !.proc = "on"]

\* getUserMedia(...).then: runs whether or not the run was cleaned up
getUserMediaThen(n) ==
    /\ Quiet
    /\ caps[n].acq = "pending"
    /\ caps' = [caps EXCEPT ![n] = [graphSetUp(caps[n]) EXCEPT !.rec = "recording"]]
    /\ streamRef' = n
    /\ audioContextRef' = n
    /\ analyserRef' = n
    /\ sourceRef' = n
    /\ processorRef' = n
    /\ mediaRecorderRef' = n
    /\ Step("getUserMediaThen", n, NoEvent)
    /\ out' = <<>>
    /\ UNCHANGED << capProps, curCap, sentAudioRef, pageVars >>

\* getUserMedia(...).then where new MediaRecorder(stream, {mimeType:
\* 'audio/webm'}) throws (a browser without that type): the stream and the
\* processor are already set up, and the rejection goes to .catch(onError).
getUserMediaThenThrows(n) ==
    /\ Quiet
    /\ caps[n].acq = "pending"
    /\ caps' = [caps EXCEPT ![n] = graphSetUp(caps[n])]
    /\ streamRef' = n
    /\ audioContextRef' = n
    /\ analyserRef' = n
    /\ sourceRef' = n
    /\ processorRef' = n
    /\ handleAudioError
    /\ Step("getUserMediaThenThrows", n, NoEvent)
    /\ out' = << Eff("onError", n, "", <<>>) >>
    /\ UNCHANGED << capProps, curCap, mediaRecorderRef, sentAudioRef >>

\* getUserMedia(...).catch(onError)
getUserMediaCatch(n) ==
    /\ Quiet
    /\ caps[n].acq = "pending"
    /\ caps' = [caps EXCEPT ![n].acq = "rejected"]
    /\ handleAudioError
    /\ Step("getUserMediaCatch", n, NoEvent)
    /\ out' = << Eff("onError", n, "", <<>>) >>
    /\ UNCHANGED << capProps, curCap, mediaRecorderRef, processorRef, streamRef,
                    sentAudioRef, graphRefs >>

\* processor.onaudioprocess of run n; isCapturing is the true of its closure
sendsFrameOnAnySocket(ws) == ws # 0
sendsFrame(ws) == sendGuard(ws)
\* promptName and contentName of the eventObj: the props that the closure
\* of the run holds
frameNamesAtSend(c) == << promptNameOf(c.ws), contentNameOf(c.ws, now) >>
frameNames(c) == << c.promptName, c.contentName >>
onaudioprocess(n) ==
    /\ Quiet
    /\ caps[n].proc = "on"
    /\ IF sendsFrame(caps[n].ws)
       THEN /\ out' = << Audio(caps[n].ws, frameNames(caps[n]), FrameSamples, 0) >>
            /\ sentAudioRef' = TRUE
            /\ caps' = [caps EXCEPT ![n].sentAny = TRUE]
       ELSE /\ out' = <<>>
            /\ UNCHANGED << sentAudioRef, caps >>
    /\ Step("onaudioprocess", n, NoEvent)
    /\ UNCHANGED << capProps, curCap, mediaRecorderRef, processorRef, streamRef,
                    graphRefs, pageVars >>

\* mediaRecorder.onstop of run n: the fallback chunk, then its own clean up
sendsFallback(ws) == ~sentAudioRef /\ sendGuard(ws)
onstop(n) ==
    /\ Quiet
    /\ caps[n].rec = "stopping"
    /\ out' = IF sendsFallback(caps[n].ws)
              THEN << Audio(caps[n].ws, frameNames(caps[n]), SilentSamples, 1) >> ELSE <<>>
    /\ caps' = releaseGraph([caps EXCEPT ![n].rec = "inactive", ![n].stream = "stopped"])
    /\ audioContextRef' = 0
    /\ analyserRef' = 0
    /\ sourceRef' = 0
    /\ processorRef' = 0
    /\ Step("onstop", n, NoEvent)
    /\ UNCHANGED << capProps, curCap, mediaRecorderRef, streamRef, sentAudioRef, pageVars >>

\* mediaRecorder.onerror of run n: the recorder goes inactive and its stop
\* event follows
onerrorRecorder(n) ==
    /\ Quiet
    /\ caps[n].rec = "recording"
    /\ caps' = [caps EXCEPT ![n].rec = "stopping"]
    /\ handleAudioError
    /\ Step("onerrorRecorder", n, NoEvent)
    /\ out' = << Eff("onError", n, "", <<>>) >>
    /\ UNCHANGED << capProps, curCap, mediaRecorderRef, processorRef, streamRef,
                    sentAudioRef, graphRefs >>

\* Time passes in the host: Date.now() grows.
tick ==
    /\ now < MaxNow
    /\ now' = now + 1
    /\ UNCHANGED << pageVars, capVars, codec, audioSeen, last, out, verbs >>

\* The interval callback of startTypingSound: playTypingBeep
typingTick(id) ==
    /\ Quiet
    /\ id \in timers
    /\ out' = IF audioContext THEN << Eff("beep", id, "", <<>>) >> ELSE <<>>
    /\ Step("typingTick", id, NoEvent)
    /\ UNCHANGED pageVars

\* ------------------------------------------------------------ the inputs
\* Base64 of the two bytes 1, 2 ("AQI="), an audio chunk of the server.
Chunk == << 0, 16, 8, 64 >>

\* Events of the transcript protocol.  The last one carries two keys.
SyncEvents ==
    { EvContentStart("TEXT", "7", NoJson), EvContentStart("TEXT", "7", Json("SPECULATIVE")) }
    \cup { EvTextOutput(Hi, r, id) : r \in {ASSISTANT, USER, Empty}, id \in {"", "7", "8"} }
    \cup { EvTextOutput(Blank, ASSISTANT, "7"), EvTextOutput(Hi, OTHERROLE, "7") }
    \cup { EvAudioOutput(Chunk, id) : id \in {"", "7"} }
    \cup { [EvAudioOutput(Chunk, "7") EXCEPT
              !.textOutput = Some([content |-> Hi, role |-> ASSISTANT, contentId |-> "7"])] }

\* Events of the tool protocol.
ToolEvents ==
    { EvContentStart("TOOL", "", NoJson), EvToolUse("search"), EvToolUse(""),
      EvToolResult(ToolJson(TRUE, "{}")), EvToolResult(ToolJson(FALSE, "")),
      EvContentEnd("TOOL"), EvContentEnd("TEXT"),
      EvToolUiOutput("barge_in", ""), EvToolUiOutput("card", ""),
      EvToolUiOutput("tool_exec_progress", "started"),
      EvToolUiOutput("tool_exec_progress", "completed"),
      EvInit(<< "search" >>) }

\* ------------------------------------------------------ the specifications
\* The page alone: the capture component stays as mounted.
PageNext(events) ==
    \/ connect /\ UNCHANGED capVars
    \/ disconnect /\ UNCHANGED capVars
    \/ startRecording /\ UNCHANGED capVars
    \/ stopRecording /\ UNCHANGED capVars
    \/ \E s \in DOMAIN sockets : onopen(s) /\ UNCHANGED capVars
    \/ \E s \in DOMAIN sockets : onerror(s) /\ UNCHANGED capVars
    \/ \E s \in DOMAIN sockets : onclose(s) /\ UNCHANGED capVars
    \/ \E s \in DOMAIN sockets : \E e \in events : onmessage(s, e) /\ UNCHANGED capVars

\* The transcript: connection, recording and the text and audio events.
Next == PageNext(SyncEvents)
Spec == Init /\ [][Next]_vars

\* The tool machine: connection, recording and the tool events.
NextTool ==
    \/ PageNext(ToolEvents)
    \/ \E id \in timers : typingTick(id) /\ UNCHANGED capVars
SpecTool == Init /\ [][NextTool]_vars

\* The page with the capture component mounted with the props
\* websocket = wsRef.current and isCapturing = recording.  A user event is
\* handled on the committed interface and its state change is committed at
\* its end; other handlers leave the commit to a later task.
Dirty  == capProps # [isCapturing |-> recording, websocket |-> wsRef]
render ==
    IF capProps # [isCapturing |-> recording', websocket |-> wsRef']
    THEN captureEffect(recording', wsRef')
    ELSE UNCHANGED capVars
NextCapture ==
    \/ ~Dirty /\ connect /\ render
    \/ ~Dirty /\ disconnect /\ render
    \/ ~Dirty /\ startRecording /\ render
    \/ ~Dirty /\ stopRecording /\ render
    \/ \E s \in DOMAIN sockets : onopen(s) /\ UNCHANGED capVars
    \/ \E s \in DOMAIN sockets : onerror(s) /\ UNCHANGED capVars
    \/ \E s \in DOMAIN sockets : onclose(s) /\ UNCHANGED capVars
    \/ commit
    \/ \E n \in DOMAIN caps : getUserMediaThen(n)
    \/ \E n \in DOMAIN caps : getUserMediaThenThrows(n)
    \/ \E n \in DOMAIN caps : getUserMediaCatch(n)
    \/ \E n \in DOMAIN caps : onaudioprocess(n)
    \/ \E n \in DOMAIN caps : onstop(n)
    \/ \E n \in DOMAIN caps : onerrorRecorder(n)
SpecCapture == Init /\ [][NextCapture]_vars

\* The whole client: the page with the capture component, the progress
\* event of the server that starts the typing timer, and the timer.
AllEvents ==
    { EvToolUiOutput("tool_exec_progress", "started") }
NextAll ==
    \/ NextCapture
    \/ \E s \in DOMAIN sockets : \E e \in AllEvents : onmessage(s, e) /\ UNCHANGED capVars
    \/ \E id \in timers : typingTick(id) /\ UNCHANGED capVars
SpecAll == Init /\ [][NextAll]_vars

\* Capture sessions while time passes: the user's actions, the socket
\* opening and closing, and the capture handlers that send frames.
NextNames ==
    \/ ~Dirty /\ connect /\ render
    \/ ~Dirty /\ disconnect /\ render
    \/ ~Dirty /\ startRecording /\ render
    \/ ~Dirty /\ stopRecording /\ render
    \/ \E s \in DOMAIN sockets : onopen(s) /\ UNCHANGED capVars
    \/ \E s \in DOMAIN sockets : onclose(s) /\ UNCHANGED capVars
    \/ commit
    \/ \E n \in DOMAIN caps : getUserMediaThen(n)
    \/ \E n \in DOMAIN caps : onaudioprocess(n)
    \/ \E n \in DOMAIN caps : onstop(n)
    \/ tick
SpecNames == Init /\ [][NextNames]_vars

\* Texts of every role: the page and textOutput events of the three roles
\* the client knows, of another role and without a role.
RoleEvents ==
    { EvTextOutput(Hi, r, id) : r \in {USER, SYSTEM, ASSISTANT, OTHERROLE, Empty},
                                id \in {"", "8"} }
    \cup { EvTextOutput(Blank, SYSTEM, "8") }
SpecRoles == Init /\ [][PageNext(RoleEvents)]_vars

\* Events with several keys and events that match no branch: the page
\* with one event for each pair of neighbours in the order of the
\* dispatcher, a contentStart and a contentEnd of a type it does not know,
\* and the empty event.
With(e, f) == [k \in DOMAIN e |-> IF Has(e[k]) THEN e[k] ELSE f[k]]
KeyEvents ==
    { With(EvInit(<< "search" >>), EvContentStart("TEXT", "7", Json("FINAL"))),
      With(EvContentStart("TEXT", "7", Json("FINAL")), EvToolUse("search")),
      With(EvContentStart("TOOL", "", NoJson), EvToolUse("search")),
      With(EvToolUse("search"), EvToolResult(ToolJson(TRUE, "{}"))),
      With(EvToolResult(ToolJson(TRUE, "{}")), EvToolUiOutput("card", "")),
      With(EvToolUiOutput("card", ""), EvContentEnd("TOOL")),
      With(EvContentEnd("TOOL"), EvAudioOutput(Chunk, "7")),
      With(EvAudioOutput(Chunk, "7"), EvTextOutput(Hi, USER, "7")),
      With(EvContentEnd("TEXT"), EvTextOutput(Hi, ASSISTANT, "7")),
      With(EvContentStart("AUDIO", "7", NoJson), EvToolUse("")),
      EvContentStart("AUDIO", "7", NoJson), EvContentEnd("TEXT"), NoEvent }
SpecKeys == Init /\ [][PageNext(KeyEvents)]_vars

\* The control verbs: the page, one text of the server, and the error
\* callback that the capture component calls while it captures.
VerbEvents == { EvTextOutput(Hi, USER, "") }
NextVerbs ==
    \/ PageNext(VerbEvents)
    \/ onError /\ UNCHANGED capVars
SpecVerbs == InitVerbs /\ [][NextVerbs]_vars

\* disconnect() from the states of a session, and called twice in a row.
DisconnectEvents ==
    { EvContentStart("TEXT", "7", Json("SPECULATIVE")), EvTextOutput(Hi, USER, "7"),
      EvToolUse("search") }
NextDisconnect ==
    \/ PageNext(DisconnectEvents)
    \/ disconnectAgain /\ UNCHANGED capVars
SpecDisconnect == Init /\ [][NextDisconnect]_vars

\* Everything that sends: the record button, the capture handlers and the
\* button of the overlay, while sockets open and close.
SendEvents == { EvButton("ok") }
NextSend ==
    \/ ~Dirty /\ connect /\ render
    \/ ~Dirty /\ disconnect /\ render
    \/ ~Dirty /\ startRecording /\ render
    \/ ~Dirty /\ stopRecording /\ render
    \/ \E s \in DOMAIN sockets : onopen(s) /\ UNCHANGED capVars
    \/ \E s \in DOMAIN sockets : onclose(s) /\ UNCHANGED capVars
    \/ \E s \in DOMAIN sockets : \E e \in SendEvents : onmessage(s, e) /\ UNCHANGED capVars
    \/ handleClick /\ UNCHANGED capVars
    \/ commit
    \/ \E n \in DOMAIN caps : getUserMediaThen(n)
    \/ \E n \in DOMAIN caps : onaudioprocess(n)
    \/ \E n \in DOMAIN caps : onstop(n)
SpecSend == Init /\ [][NextSend]_vars

\* The codec functions on their own: a buffer of float samples, or a buffer
\* of 16-bit samples, is drawn and passed through them.
SeqsUpTo(S, n) == UNION { [1..k -> S] : k \in 0..n }
FloatSamples   == (-(MaxDen + 1))..(MaxDen + 1)
Int16Samples   == { -NegScale, -1, 0, 1, 255, 256, PosScale }
InitCodec ==
    /\ InitClient
    /\ verbs = Untracked
    /\ \/ \E f \in SeqsUpTo(FloatSamples, MaxFrame) :
              codec = [NoCodec EXCEPT !.stage = "float", !.floats = f]
       \/ \E b \in SeqsUpTo(Int16Samples, MaxFrame) :
              codec = [NoCodec EXCEPT !.stage = "pcm", !.pcm = b]
NextCodec ==
    \/ callFloatTo16BitPCM
    \/ callInt16ToBase64
    \/ callBase64ToArrayBuffer
SpecCodec == InitCodec /\ [][NextCodec]_vars

\* The transport handler with any data: the page, a few events of each
\* protocol, text events without text, and data that is not a wrapped event.
Spaces   == << " ", "\n" >>
MsgEvents ==
    { EvTextOutput(Hi, ASSISTANT, "7"), EvToolUse("search") }
    \cup { EvTextOutput(c, r, id) : c \in {Empty, Blank, Spaces},
                                    r \in {ASSISTANT, USER, OTHERROLE, Empty},
                                    id \in {"", "7"} }
MsgData ==
    { Binary, NotJson, JsonNull, JsonBare(NoEvent), JsonBare(EvToolUse("search")),
      JsonEvent(EvTextOutput(Hi, USER, "")) }
NextMsg ==
    \/ PageNext(MsgEvents)
    \/ \E s \in DOMAIN sockets : \E d \in MsgData : onmessageData(s, d) /\ UNCHANGED capVars
SpecMsg == Init /\ [][NextMsg]_vars

\* ================================================================ claims
ContentIds == {"7", "8"}
PureText(e) ==
    /\ branchOf(e) = "textOutput"
    /\ e = EvTextOutput(Val(e.textOutput).content, Val(e.textOutput).role,
                        Val(e.textOutput).contentId)
PureAudio(e) ==
    /\ branchOf(e) = "audioOutput"
    /\ e = EvAudioOutput(Val(e.audioOutput).content, Val(e.audioOutput).contentId)
Idle               == ~waitingForTool /\ ~Has(currentTool)
AwaitingTool       == waitingForTool
ToolResultReceived == ~waitingForTool /\ Has(currentTool)

\* C1: an ASSISTANT textOutput with non-empty text for ContentId C handled
\* before any audioOutput for C is buffered under C and not rendered; the
\* audioOutput for C then appends the buffered text to the transcript and
\* removes the entry of C from the pending buffer.
C1_TextBufferedUntilAudio ==
    [][ /\ last'.op = "onmessage"
        => /\ \A id \in ContentIds :
                 ( /\ PureText(last'.ev)
                   /\ Val(last'.ev.textOutput).role = ASSISTANT
                   /\ ~textIsEmpty(Val(last'.ev.textOutput).content)
                   /\ Val(last'.ev.textOutput).contentId = id
                   /\ id \notin audioSeen )
                 => /\ textOutputs' = textOutputs
                    /\ MapHas(pendingTexts', id)
                    /\ MapGet(pendingTexts', id).text = Val(last'.ev.textOutput).content
           /\ \A id \in ContentIds :
                 ( /\ PureAudio(last'.ev)
                   /\ Val(last'.ev.audioOutput).contentId = id
                   /\ MapHas(pendingTexts, id) )
                 => /\ textOutputs' = Append(textOutputs, MapGet(pendingTexts, id))
                    /\ ~MapHas(pendingTexts', id)
      ]_vars

\* C2: the transcript never holds two entries with the same (role, text).
C2_NoDuplicateEntry ==
    \A i, j \in 1..Len(textOutputs) : i # j => textOutputs[i] # textOutputs[j]
\* A second display attempt of ("ASSISTANT", "hi"), under another ContentId,
\* has just been swallowed.
C2_Witness ==
    /\ last.op = "onmessage"
    /\ last.ev = EvTextOutput(Hi, ASSISTANT, "8")
    /\ displayedTextContentIds = {"7", "8"}
    /\ textOutputs = << [text |-> Hi, role |-> ASSISTANT] >>

\* C3: handling a toolUiOutput of type barge_in calls stop() on the playback
\* service, in every state of the tool machine.
C3_BargeInStopsPlayback ==
    ( /\ last.op = "onmessage"
      /\ branchOf(last.ev) = "toolUiOutput"
      /\ Val(last.ev.toolUiOutput).type = "barge_in" )
    => Cardinality(Calls("stop")) = 1
\* barge_in handled while a tool result has been received.
C3_Witness ==
    /\ last.op = "onmessage"
    /\ last.ev = EvToolUiOutput("barge_in", "")
    /\ ToolResultReceived
    /\ Cardinality(Calls("stop")) = 1

\* C4: when the recorder of a capture run stops with its socket OPEN, the
\* fallback chunk of 1600 zero samples is sent exactly once if no frame of
\* the run was transmitted, and not at all if one was.
Fallbacks(o) ==
    { i \in 1..Len(o) : o[i] = Audio(o[i].sock, o[i].names, SilentSamples, 1) }
C4_FallbackIffNothingSent ==
    [][ ( /\ last'.op = "onstop"
          /\ IsOpen(caps[last'.sock].ws) )
        => Cardinality(Fallbacks(out')) = (IF caps[last'.sock].sentAny THEN 0 ELSE 1)
      ]_vars

\* C5: a frame produced while the socket of the capture run is not OPEN is
\* dropped: nothing is sent, the error callback is not called (recording is
\* unchanged) and sentAudioRef is unchanged; a frame produced while it is
\* OPEN is sent at once; no other step sends a frame, so a dropped frame is
\* never sent later.
AudioSends(o) == { i \in 1..Len(o) : o[i].op = "send" /\ o[i].verb = "audioInput" }
C6_AtMostOneTimer == Cardinality(timers) <= 1

C8_CloseResetsSession ==
    last.op \in {"onclose", "onerror"} =>
        (displayedMessages = {} /\ pendingTexts = {} /\ Idle)

\* C9: when connect() has created the socket, the DedupSet, the PendingText
\* map, the stage map and the ToolSession are empty.
C9_ConnectStartsFresh ==
    last.op = "connect" =>
        (displayedMessages = {} /\ pendingTexts = {} /\ contentIdToStage = {} /\ Idle)

\* C10: a socket is created only by the connect action.
C10_OnlyConnectCreatesSocket ==
    [][ Len(sockets') # Len(sockets) =>
          (last'.op = "connect" /\ Len(sockets') = Len(sockets) + 1) ]_vars
\* A second socket exists after the first one was closed by the server.
C10_Witness ==
    /\ last.op = "connect"
    /\ Len(sockets) = 2
    /\ sockets[1] = "CLOSED"
    /\ sockets[2] = "CONNECTING"

\* C11: a transport message that is not a string, is not valid JSON, or is
\* valid JSON without an event key is dropped: the transcript, the DedupSet,
\* the pending texts, the stage map, the tool state, the timer, the status,
\* the recording flag and the sockets are as before and nothing is called,
\* so the socket stays OPEN for the messages that follow.
Malformed(d) == ~d.isString \/ ~d.parses \/ d.msg.isNull \/ ~Has(d.msg.event)
C11_MalformedMessageDropped ==
    [][ ( /\ last'.op = "onmessageData"
          /\ Malformed(last'.ev) )
        => /\ UNCHANGED pageVars
           /\ out' = <<>>
           /\ sockets'[last'.sock] = "OPEN"
      ]_vars
\* An object that holds a toolUse key and no event key has just been dropped:
\* the transcript is not empty and no tool is recorded.
C11_Witness ==
    /\ last.op = "onmessageData"
    /\ last.ev = JsonBare(EvToolUse("search"))
    /\ textOutputs # <<>>
    /\ ~Has(currentTool)
    /\ sockets[last.sock] = "OPEN"

\* C12: a toolResult whose content is not parseable JSON, handled in
\* AwaitingTool, leaves the machine in AwaitingTool (waitingForTool stays
\* set, the recorded tool is unchanged) and no exception escapes a state
\* updater.
C12_MalformedResultKeepsAwaiting ==
    [][ ( /\ last'.op = "onmessage"
          /\ branchOf(last'.ev) = "toolResult"
          /\ ~Val(last'.ev.toolResult).content.wellFormed
          /\ AwaitingTool )
        => /\ waitingForTool'
           /\ currentTool' = currentTool
           /\ ~crashed'
      ]_vars

\* C13: once capture has stopped (the effect has run with isCapturing
\* false), every resource acquired by a capture run is released: the tracks
\* of its stream are stopped, the visualizer's and the streaming
\* AudioContext are closed, and the source, analyser and processor nodes
\* are disconnected.
Released(c) ==
    /\ c.stream \in {"none", "stopped"}
    /\ c.vctx \in {"none", "closed"}
    /\ c.actx \in {"none", "closed"}
    /\ c.vsrc \in {"none", "off"}
    /\ c.src \in {"none", "off"}
    /\ c.ana \in {"none", "off"}
    /\ c.proc \in {"none", "off"}
C13_StoppedCaptureHoldsNothing ==
    ~capProps.isCapturing => \A n \in DOMAIN caps : Released(caps[n])

\* C14: a capture run that has been stopped (it is no longer the run of the
\* current effect) holds no live stream, no connected processor and no
\* running recorder, and sends no audioInput frame, also when its
\* getUserMedia promise resolves after the stop.
C14_StoppedRunStaysStopped ==
    \A n \in DOMAIN caps :
        n # curCap =>
            /\ caps[n].stream # "live"
            /\ caps[n].proc # "on"
            /\ caps[n].rec # "recording"
            /\ (last.op = "onaudioprocess" /\ last.sock = n) => AudioSends(out) = {}

\* C15: after disconnect() and after onclose no typing interval is
\* running, and no interval callback fires while the status is
\* 'Disconnected'.
C15_NoTimerAfterDisconnect ==
    /\ last.op \in {"disconnect", "onclose"} => timers = {}
    /\ last.op = "typingTick" => status # "Disconnected"

\* C16: when getUserMedia rejects, onError is called exactly once for that
\* run and recording becomes false; the handler starts no acquisition, a
\* rejected run is never reported again, and a new acquisition starts only
\* in the user's start of a recording.
ErrorCalls(o) == { i \in 1..Len(o) : o[i].op = "onError" }
C16_AcquisitionFailureReportedOnce ==
    [][ /\ last'.op = "getUserMediaCatch" =>
              /\ caps[last'.sock].acq = "pending"
              /\ caps'[last'.sock].acq = "rejected"
              /\ Cardinality(ErrorCalls(out')) = 1
              /\ ~recording'
              /\ Len(caps') = Len(caps)
        /\ \A n \in DOMAIN caps :
              caps[n].acq = "rejected" =>
                 /\ caps'[n].acq = "rejected"
                 /\ last'.sock = n => ErrorCalls(out') = {}
        /\ Len(caps') > Len(caps) => (last'.op = "startRecording" /\ ~recording)
      ]_vars
\* The acquisition of the run has failed; the page has not rendered yet.
C16_Witness ==
    /\ last.op = "getUserMediaCatch"
    /\ caps[last.sock].acq = "rejected"
    /\ curCap = last.sock
    /\ capProps.isCapturing
    /\ ~recording

\* C17: every sample s encodes to round(c * 32768) when c < 0 and to
\* round(c * 32767) otherwise, c being s clamped to [-1, 1]; the result is
\* -32768 for s <= -1, 32767 for s >= 1, 0 for 0, and lies in
\* [-32768, 32767].
round(p) == (2 * p + MaxDen) \div (2 * MaxDen)
Encoded(k) ==
    LET c == IF k < -MaxDen THEN -MaxDen ELSE IF k > MaxDen THEN MaxDen ELSE k
    IN IF c < 0 THEN round(c * 32768) ELSE round(c * 32767)
C17_EncodesRounded ==
    codec.stage # "float" =>
        \A i \in 1..Len(codec.floats) :
            /\ codec.pcm[i] = Encoded(codec.floats[i])
            /\ codec.floats[i] <= -MaxDen => codec.pcm[i] = -32768
            /\ codec.floats[i] >= MaxDen => codec.pcm[i] = 32767
            /\ codec.floats[i] = 0 => codec.pcm[i] = 0
            /\ codec.pcm[i] \in (-32768)..32767

\* C18: base64ToArrayBuffer of int16ToBase64 of a buffer is the buffer's
\* little-endian byte sequence: two bytes for each sample, the low byte
\* first, a negative sample in two's complement; so for the empty buffer.
LittleEndian(v) ==
    LET u == IF v < 0 THEN v + 65536 ELSE v IN << u % 256, u \div 256 >>
RECURSIVE BytesOf(_)
BytesOf(buf) == IF buf = <<>> THEN <<>> ELSE LittleEndian(Head(buf)) \o BytesOf(Tail(buf))
C18_Base64RoundTrip ==
    codec.stage = "bytes" =>
        /\ codec.bytes = BytesOf(codec.pcm)
        /\ Len(codec.bytes) = 2 * Len(codec.pcm)
\* A buffer of two samples, one negative, has made the round trip: its four
\* bytes are encoded with padding.
C18_Witness ==
    /\ codec.stage = "bytes"
    /\ codec.pcm = << -1, 256 >>
    /\ codec.base64 = << 63, 63, 60, 0, 0, 16, 64, 64 >>
    /\ codec.bytes = << 255, 255, 0, 1 >>

EmptyText(c) == \A i \in 1..Len(c) : c[i] \in {" ", "\t", "\n"}
C20_EmptyTextIgnored ==
    [][ ( /\ last'.op = "onmessage"
          /\ branchOf(last'.ev) = "textOutput"
          /\ EmptyText(Val(last'.ev.textOutput).content) )
        => /\ UNCHANGED syncVars
           /\ out' = <<>>
      ]_vars
\* A USER text of a space and a line feed under ContentId 7 has just been
\* ignored on a session that has shown nothing.
C20_Witness ==
    /\ last.op = "onmessage"
    /\ last.ev = EvTextOutput(Spaces, USER, "7")
    /\ textOutputs = <<>>
    /\ displayedMessages = {}
    /\ displayedTextContentIds = {}
    /\ pendingTexts = {}

\* C21: every audioOutput handled makes exactly one playPCM call, with the
\* decoded bytes of its content, and then flushes the text pending for its
\* ContentId: an entry pending for the id is displayed and removed; when
\* none is pending the transcript and the pending buffer are unchanged.
C21_AudioPlayedThenFlushed ==
    [][ ( /\ last'.op = "onmessage"
          /\ branchOf(last'.ev) = "audioOutput" )
        => LET a  == Val(last'.ev.audioOutput)
               id == IF a.contentId # "" THEN a.contentId ELSE "default"
           IN /\ Len(out') = 1
              /\ out'[1].op = "playPCM"
              /\ a.content = Chunk => out'[1].bytes = << 1, 2 >>
              /\ IF MapHas(pendingTexts, id)
                 THEN /\ \E i \in 1..Len(textOutputs') :
                            textOutputs'[i] = MapGet(pendingTexts, id)
                      /\ ~MapHas(pendingTexts', id)
                 ELSE /\ textOutputs' = textOutputs
                      /\ pendingTexts' = pendingTexts
      ]_vars
\* The audio chunk of ContentId 7 has just been played after the text of
\* the id was shown: one playPCM call with the two bytes of the chunk.
C21_Witness ==
    /\ last.op = "onmessage"
    /\ last.ev = EvAudioOutput(Chunk, "7")
    /\ out = << Eff("playPCM", 0, "", << 1, 2 >>) >>
    /\ "7" \in displayedTextContentIds
    /\ Len(textOutputs) = 1
    /\ pendingTexts = {}

\* C22: from every state of the tool machine, handling contentEnd of type
\* TOOL leaves the machine in Idle: no tool is recorded and waitingForTool
\* is false.
C22_ContentEndToolReturnsToIdle ==
    ( /\ last.op = "onmessage"
      /\ branchOf(last.ev) = "contentEndTool" )
    => /\ ~waitingForTool
       /\ currentTool = None
       /\ machineState = "Idle"
\* contentEnd of type TOOL has just been handled in ToolResultReceived.
C22_Witness ==
    /\ last.op = "onmessage"
    /\ last.ev = EvContentEnd("TOOL")
    /\ last.tool = "ToolResultReceived"
    /\ Idle

\* C23: after contentStart of type TOOL and after toolUse the machine is in
\* AwaitingTool and a tool with a name is recorded: the name of the toolUse
\* event, or the placeholder "Unknown Tool" when the event gives none.
C23_ToolStartRecordsName ==
    /\ ( /\ last.op = "onmessage"
         /\ branchOf(last.ev) \in {"contentStartTool", "toolUse"} )
       => /\ waitingForTool
          /\ Has(currentTool)
          /\ Val(currentTool).name # ""
    /\ ( /\ last.op = "onmessage"
         /\ branchOf(last.ev) = "toolUse" )
       => Val(currentTool).name =
             (IF Val(last.ev.toolUse).toolName = "" THEN "Unknown Tool"
              ELSE Val(last.ev.toolUse).toolName)

\* C24: a toolResult with well-formed JSON content handled in AwaitingTool
\* moves the machine to ToolResultReceived: waiting-for-tool becomes false
\* and a tool is recorded whose content is the parsed result; a toolResult
\* in any state leaves the name of a recorded tool as it was.
C24_ResultMovesToReceived ==
    [][ /\ ( /\ last'.op = "onmessage"
             /\ branchOf(last'.ev) = "toolResult"
             /\ Val(last'.ev.toolResult).content.wellFormed
             /\ last'.tool = "AwaitingTool" )
           => /\ ~waitingForTool'
              /\ Has(currentTool')
              /\ Val(currentTool').content = Val(last'.ev.toolResult).content.pretty
              /\ machineState' = "ToolResultReceived"
        /\ ( /\ last'.op = "onmessage"
             /\ branchOf(last'.ev) = "toolResult"
             /\ Has(currentTool) /\ Has(currentTool') )
           => Val(currentTool').name = Val(currentTool).name ]_vars

\* C25: once a tool_exec_progress event with status completed has been
\* handled, no 'thinking' timer is active, and the step that follows it is
\* never a pulse of such a timer, whatever started and completed events
\* came before.
Completed(e) ==
    /\ branchOf(e) = "toolUiOutput"
    /\ Val(e.toolUiOutput).type = "tool_exec_progress"
    /\ Val(e.toolUiOutput).content.status = "completed"
C25_CompletedSilencesTimers ==
    [][ /\ (last'.op = "onmessage" /\ Completed(last'.ev)) => timers' = {}
        /\ (last.op = "onmessage" /\ Completed(last.ev)) => last'.op # "typingTick"
      ]_vars

\* C26: a toolUiOutput event of any type, in any state of the tool machine,
\* sets the overlay to its payload and leaves waiting-for-tool, the recorded
\* tool, the transcript, the DedupSet, the displayed ids and the pending
\* texts as they were.
C26_OverlayIsIndependent ==
    [][ (last'.op = "onmessage" /\ branchOf(last'.ev) = "toolUiOutput")
        => /\ toolUiOutput' = last'.ev.toolUiOutput
           /\ waitingForTool' = waitingForTool
           /\ currentTool' = currentTool
           /\ machineState' = last'.tool
           /\ textOutputs' = textOutputs
           /\ displayedMessages' = displayedMessages
           /\ displayedTextContentIds' = displayedTextContentIds
           /\ pendingTexts' = pendingTexts ]_vars
\* A barge_in overlay has just arrived while a tool result was on display:
\* the overlay holds it and the result is still recorded.
C26_Witness ==
    /\ last.op = "onmessage"
    /\ branchOf(last.ev) = "toolUiOutput"
    /\ last.tool = "ToolResultReceived"
    /\ toolUiOutput = last.ev.toolUiOutput
    /\ Val(toolUiOutput).type = "barge_in"
    /\ ToolResultReceived

\* C27: an error of the recorder during a capture run calls the error
\* callback once and makes recording false, and the commit that follows
\* releases every capture resource of that run.
C27_RecorderErrorStopsAndReleases ==
    [][ /\ last'.op = "onerrorRecorder" =>
              /\ Cardinality(ErrorCalls(out')) = 1
              /\ ~recording'
        /\ (last.op = "onerrorRecorder" /\ last'.op = "commit") =>
              /\ ~capProps'.isCapturing
              /\ Released(caps'[last.sock])
      ]_vars

\* C28: the DedupSet grows monotonically: every step other than the
\* disconnect action leaves it equal to or a superset of what it was.
C28_DedupSetGrows ==
    [][ last'.op # "disconnect" => displayedMessages \subseteq displayedMessages' ]_vars
\* The server closed the socket and the user connected again without a
\* disconnect: the keys of the first connection are still in the set.
C28_Witness ==
    /\ last.op = "connect"
    /\ wsRef = 2
    /\ Cardinality(displayedMessages) >= 2

\* C29: a non-empty textOutput for which no audio is expected (it has no
\* ContentId, or the event carries no audio of that ContentId) is on display
\* once its handler has run: its (role, text) pair is in the DedupSet and in
\* the transcript, and its ContentId, when it has one, is in the
\* displayed-id set.
C29_TextWithoutAudioIsDisplayed ==
    ( /\ last.op = "onmessage"
      /\ branchOf(last.ev) = "textOutput"
      /\ ~textIsEmpty(Val(last.ev.textOutput).content)
      /\ \/ Val(last.ev.textOutput).contentId = ""
         \/ ~hasAudioOutput(last.ev, Val(last.ev.textOutput).contentId) )
    => LET m  == [text |-> Val(last.ev.textOutput).content, role |-> textRole(last.ev)]
           id == Val(last.ev.textOutput).contentId
       IN /\ messageKey(m) \in displayedMessages
          /\ \E i \in 1..Len(textOutputs) : textOutputs[i] = m
          /\ id # "" => id \in displayedTextContentIds

\* C30: nothing is written to a socket that is not OPEN: every frame that a
\* handler sends (start_audio, stop_audio, audioInput, the silent fallback
\* chunk, ui_interaction) goes to a socket that exists and is OPEN when the
\* handler runs, and a handler whose socket is missing or not OPEN sends
\* nothing and raises nothing.
Sends(o) == { i \in 1..Len(o) : o[i].op = "send" }
targetOf(l) ==
    IF l.op \in {"onaudioprocess", "onstop"} THEN caps[l.sock].ws ELSE wsRef
C30_SendsOnlyOnOpenSocket ==
    [][ /\ \A i \in Sends(out') :
              /\ out'[i].sock # 0
              /\ sockets[out'[i].sock] = "OPEN"
              /\ out'[i].sock = targetOf(last')
        /\ ( /\ last'.op \in {"startRecording", "stopRecording", "handleClick",
                              "onaudioprocess", "onstop"}
             /\ ~IsOpen(targetOf(last')) )
           => (Sends(out') = {} /\ ~crashed')
      ]_vars
\* The button of the overlay has been clicked after the server closed the
\* socket: wsRef still holds the closed socket and nothing was sent.
C30_Witness ==
    /\ last.op = "handleClick"
    /\ wsRef # 0
    /\ sockets[wsRef] = "CLOSED"
    /\ out = <<>>

\* C31: a close or error event of a socket that is no longer the one in
\* wsRef, delivered while the socket in wsRef is connecting or open, leaves
\* the status and the recording flag as they were.
C31_StaleSocketEventsIgnored ==
    [][ ( /\ last'.op \in {"onclose", "onerror"}
          /\ wsRef # 0
          /\ last'.sock # wsRef
          /\ sockets[wsRef] \in {"CONNECTING", "OPEN"} )
        => (status' = status /\ recording' = recording) ]_vars

Shown(m, dm, to, dm2, to2) ==
    /\ dm2 = dm \cup {messageKey(m)}
    /\ to2 = IF messageKey(m) \in dm THEN to ELSE Append(to, m)
C33_RolesOfText ==
    [][ (last'.op = "onmessage" /\ branchOf(last'.ev) = "textOutput")
        => LET t    == Val(last'.ev.textOutput)
               role == t.role
           IN /\ (role # <<>> /\ role \notin {USER, SYSTEM, ASSISTANT})
                    => /\ pageVars' = pageVars
                       /\ out' = <<>>
              /\ (role = <<>> /\ ~textIsEmpty(t.content))
                    => Shown([text |-> t.content, role |-> ASSISTANT],
                             displayedMessages, textOutputs,
                             displayedMessages', textOutputs')
              /\ (role \in {USER, SYSTEM} /\ ~textIsEmpty(t.content))
                    => /\ Shown([text |-> t.content, role |-> role],
                                displayedMessages, textOutputs,
                                displayedMessages', textOutputs')
                       /\ pendingTexts' = pendingTexts
                       /\ t.contentId # "" => t.contentId \in displayedTextContentIds'
      ]_vars
\* A text without a role has just been put on display as ASSISTANT text.
C33_Witness ==
    /\ last.op = "onmessage"
    /\ branchOf(last.ev) = "textOutput"
    /\ Val(last.ev.textOutput).role = <<>>
    /\ Val(last.ev.textOutput).contentId = "8"
    /\ textOutputs = << [text |-> Hi, role |-> ASSISTANT] >>
    /\ "8" \in displayedTextContentIds

\* C34: each event object is handled by at most one branch, the first in
\* the order init, contentStart(TEXT), contentStart(TOOL), toolUse,
\* toolResult, toolUiOutput, contentEnd(TOOL), audioOutput, textOutput whose
\* key the event carries: that branch acts, the state that belongs to the
\* other branches is left as it was, and an event that matches no branch
\* changes no state.
Priority ==
    << "init", "contentStartText", "contentStartTool", "toolUse", "toolResult",
       "toolUiOutput", "contentEndTool", "audioOutput", "textOutput" >>
Matches(e, b) ==
    CASE b = "init"             -> Has(e.init)
      [] b = "contentStartText" -> Has(e.contentStart) /\ Val(e.contentStart).type = "TEXT"
      [] b = "contentStartTool" -> Has(e.contentStart) /\ Val(e.contentStart).type = "TOOL"
      [] b = "toolUse"          -> Has(e.toolUse)
      [] b = "toolResult"       -> Has(e.toolResult)
      [] b = "toolUiOutput"     -> Has(e.toolUiOutput)
      [] b = "contentEndTool"   -> Has(e.contentEnd) /\ Val(e.contentEnd).type = "TOOL"
      [] b = "audioOutput"      -> Has(e.audioOutput)
      [] b = "textOutput"       -> Has(e.textOutput)
Top(e) ==
    IF \A i \in DOMAIN Priority : ~Matches(e, Priority[i]) THEN "none"
    ELSE Priority[CHOOSE i \in DOMAIN Priority :
                     /\ Matches(e, Priority[i])
                     /\ \A j \in 1..(i - 1) : ~Matches(e, Priority[j])]
C34_OneBranchByPriority ==
    [][ last'.op = "onmessage" =>
        LET e == last'.ev
            b == Top(e)
        IN /\ connVars' = connVars
           /\ b = "init" =>
                 /\ toolConfigs' = Val(e.init).toolConfigs
                 /\ UNCHANGED << syncVars, toolUiOutput, currentTool, waitingForTool,
                                 timerVars, crashed >>
                 /\ out' = <<>>
           /\ b = "contentStartText" =>
                 /\ MapHas(contentIdToStage', Val(e.contentStart).contentId)
                 /\ UNCHANGED << textOutputs, displayedMessages, displayedTextContentIds,
                                 pendingTexts, toolVars, timerVars, crashed >>
                 /\ out' = <<>>
           /\ b = "contentStartTool" =>
                 /\ waitingForTool'
                 /\ UNCHANGED << syncVars, toolUiOutput, currentTool, toolConfigs,
                                 timerVars, crashed >>
                 /\ out' = <<>>
           /\ b = "toolUse" =>
                 /\ waitingForTool'
                 /\ Has(currentTool') /\ Val(currentTool').content = "Processing..."
                 /\ UNCHANGED << syncVars, toolUiOutput, toolConfigs, timerVars, crashed >>
                 /\ out' = <<>>
           /\ b = "toolResult" =>
                 /\ ~waitingForTool'
                 /\ Has(currentTool') = Has(currentTool)
                 /\ UNCHANGED << syncVars, toolUiOutput, toolConfigs, timerVars >>
                 /\ out' = <<>>
           /\ b = "toolUiOutput" =>
                 /\ toolUiOutput' = e.toolUiOutput
                 /\ UNCHANGED << syncVars, currentTool, waitingForTool, toolConfigs, crashed >>
           /\ b = "contentEndTool" =>
                 /\ ~waitingForTool' /\ currentTool' = None
                 /\ UNCHANGED << syncVars, toolUiOutput, toolConfigs, timerVars, crashed >>
                 /\ out' = <<>>
           /\ b = "audioOutput" =>
                 /\ Len(out') = 1 /\ out'[1].op = "playPCM"
                 /\ UNCHANGED << textOutputs, displayedMessages, contentIdToStage,
                                 toolVars, timerVars, crashed >>
           /\ b = "textOutput" =>
                 /\ ~textIsEmpty(Val(e.textOutput).content)
                       => messageKey([text |-> Val(e.textOutput).content,
                                      role |-> textRole(e)]) \in displayedMessages'
                 /\ UNCHANGED << contentIdToStage, toolVars, timerVars, crashed >>
                 /\ out' = <<>>
           /\ b = "none" => (pageVars' = pageVars /\ out' = <<>>)
      ]_vars
\* An event with an audioOutput key and a textOutput key has been handled:
\* its audio was played and its USER text is not in the transcript.
C34_Witness ==
    /\ last.op = "onmessage"
    /\ Has(last.ev.audioOutput) /\ Has(last.ev.textOutput)
    /\ ~Has(last.ev.contentEnd)
    /\ Len(out) = 1 /\ out[1].op = "playPCM"
    /\ textOutputs = <<>>

\* C35: on one connection the control verbs alternate, beginning with
\* start_audio: start_audio is sent only when no control verb was sent on
\* the socket before or the last one was stop_audio, and stop_audio only
\* when the last one was start_audio.
C35_ControlVerbsAlternate ==
    [][ \A i \in ControlSends(out') :
           IF out'[i].verb = "start_audio"
           THEN LastVerb \in {"", "stop_audio"}
           ELSE LastVerb = "start_audio" ]_vars

\* C36: the transcript and the DedupSet agree in every reachable state: the
\* keys of the entries of the transcript are the DedupSet and no two
\* entries have the same key; and every step either appends one entry whose
\* key is new and adds that key, or changes neither, or is the disconnect
\* action and empties both, so that the entries stand in the order of their
\* first display.
KeysOf(to) == { messageKey(to[i]) : i \in 1..Len(to) }
Agree(to, dm) ==
    /\ KeysOf(to) = dm
    /\ \A i, j \in 1..Len(to) : messageKey(to[i]) = messageKey(to[j]) => i = j
C36_TranscriptMatchesDedupSet ==
    [][ /\ Agree(textOutputs, displayedMessages)
        /\ Agree(textOutputs', displayedMessages')
        /\ \/ /\ Len(textOutputs') = Len(textOutputs) + 1
              /\ SubSeq(textOutputs', 1, Len(textOutputs)) = textOutputs
              /\ messageKey(textOutputs'[Len(textOutputs')]) \notin displayedMessages
              /\ displayedMessages' =
                    displayedMessages \cup {messageKey(textOutputs'[Len(textOutputs')])}
           \/ /\ textOutputs' = textOutputs
              /\ displayedMessages' = displayedMessages
           \/ /\ last'.op = "disconnect"
              /\ textOutputs' = <<>>
              /\ displayedMessages' = {}
      ]_vars
\* Three texts are on display in the order in which they arrived, and a
\* repetition of the first has just been swallowed.
C36_Witness ==
    /\ last.op = "onmessage"
    /\ last.ev = EvTextOutput(Hi, SYSTEM, "")
    /\ Len(textOutputs) = 3
    /\ textOutputs[1] = [text |-> Hi, role |-> SYSTEM]
    /\ textOutputs[3] = [text |-> Hi, role |-> USER]
    /\ Cardinality(displayedMessages) = 3

\* C37: disconnect(), from any state, leaves recording false, status
\* 'Disconnected', the transcript, the DedupSet, the displayed ids, the stage
\* map and the pending texts empty and wsRef null, with close() called on
\* the socket that wsRef held, which is then neither connecting nor open,
\* and stop() called on the playback service; a second call straight after
\* the first leaves the state of the page as the first left it.
C37_DisconnectResetsAndIsIdempotent ==
    [][ last'.op \in {"disconnect", "disconnectAgain"} =>
          /\ ~recording'
          /\ status' = "Disconnected"
          /\ textOutputs' = <<>>
          /\ displayedMessages' = {}
          /\ displayedTextContentIds' = {}
          /\ contentIdToStage' = {}
          /\ pendingTexts' = {}
          /\ wsRef' = 0
          /\ wsRef # 0 =>
                /\ sockets'[wsRef] \notin {"CONNECTING", "OPEN"}
                /\ \E i \in 1..Len(out') : out'[i].op = "close" /\ out'[i].sock = wsRef
          /\ \E i \in 1..Len(out') : out'[i].op = "stop"
          /\ last'.op = "disconnectAgain" => pageVars' = pageVars
      ]_vars
\* disconnect() has run a second time: the socket of the session is still
\* closing, nothing was closed again and the playback was stopped again.
C37_Witness ==
    /\ last.op = "disconnectAgain"
    /\ status = "Disconnected"
    /\ wsRef = 0
    /\ sockets = << "CLOSING" >>
    /\ Has(currentTool)
    /\ out = << Eff("stop", 0, "", <<>>) >>
====
